---- MODULE Spec2Model ----
(***************************************************************************)
(* Model of the damped Newton minimizer of tools/src/minimizer.cpp:        *)
(* minimizer::minimize, minimizer::df, minimizer::ddf and                  *)
(* minimizer::loadPoints.                                                  *)
(*                                                                         *)
(* A double is a record [nan, num, den]: either the not-a-number value or  *)
(* an exact rational num/den in lowest terms (rounding is abstracted       *)
(* away; infinities are not represented).  A vector is a sequence; slot n  *)
(* of the code (0-based) is element n+1 of the sequence.                   *)
(***************************************************************************)
EXTENDS Integers, Sequences

VARIABLES
  mSamples,    \* minimizer::mSamples, the loaded point cloud
  mParams,     \* minimizer::mParams
  mLambda,     \* minimizer::mLambda
  mMaxIter,    \* minimizer::mMaxIter
  mMinThresh,  \* minimizer::mMinThresh
  degenerate,  \* what the build's inverse() yields for a singular matrix
  pc,          \* "idle", or the position inside minimize
  lastCall,    \* the public operation invoked last
  par_in,      \* minimize: _par_in
  par_out,     \* minimize: _par_out
  params,      \* df / ddf: _params
  out,         \* df / ddf: the returned vector / matrix
  ret,         \* boolean returned by the last call, "none" while running
  iter,        \* minimize: iter
  oldParams,   \* minimize: oldParams
  H,           \* minimize: H
  J,           \* minimize: J
  dH,          \* minimize: dH
  error,       \* minimize: error (held as the squared norm)
  doneIter,    \* iter at the moment minimize returned
  doneError,   \* error at the moment minimize returned
  stale,       \* the running or last fit began on parameters left by the fit before
  repeated     \* the last df / ddf call repeated the call before it

vars == <<mSamples, mParams, mLambda, mMaxIter, mMinThresh, degenerate, pc,
          lastCall, par_in, par_out, params, out, ret, iter, oldParams,
          H, J, dH, error, doneIter, doneError, stale, repeated>>

config == <<mLambda, mMaxIter, mMinThresh, degenerate>>

-----------------------------------------------------------------------------
(* Bounds of the exploration *)

MaxPoints == 2
MaxIterBound == 3
Huge == 10

-----------------------------------------------------------------------------
(* Doubles *)

Abs(n) == IF n < 0 THEN -n ELSE n

RECURSIVE GCD(_, _)
GCD(a, b) == IF b = 0 THEN a ELSE GCD(b, a % b)

NaN == [nan |-> TRUE, num |-> 0, den |-> 1]

R(n, d) ==
  LET g == GCD(Abs(n), d)
  IN [nan |-> FALSE, num |-> n \div g, den |-> d \div g]

Zero == R(0, 1)
One == R(1, 1)

Add(a, b) ==
  IF a.nan \/ b.nan THEN NaN
  ELSE LET g == GCD(a.den, b.den)
       IN R(a.num * (b.den \div g) + b.num * (a.den \div g),
            (a.den \div g) * b.den)

Neg(a) == IF a.nan THEN NaN ELSE [nan |-> FALSE, num |-> -a.num, den |-> a.den]

Sub(a, b) == Add(a, Neg(b))

Mul(a, b) ==
  IF a.nan \/ b.nan THEN NaN
  ELSE LET g1 == GCD(Abs(a.num), b.den)
           g2 == GCD(Abs(b.num), a.den)
       IN R((a.num \div g1) * (b.num \div g2), (a.den \div g2) * (b.den \div g1))

\* a / b for a finite non-zero b
Div(a, b) ==
  IF a.nan \/ b.nan THEN NaN
  ELSE Mul(a, IF b.num < 0 THEN [nan |-> FALSE, num |-> -b.den, den |-> -b.num]
                           ELSE [nan |-> FALSE, num |-> b.den, den |-> b.num])

\* IEEE comparisons: every ordered comparison with NaN is false, and
\* x != y is true as soon as one side is NaN
Gt(a, b) == ~a.nan /\ ~b.nan /\ a.num * b.den > b.num * a.den
Le(a, b) == ~a.nan /\ ~b.nan /\ a.num * b.den <= b.num * a.den
Ne(a, b) == a.nan \/ b.nan \/ a.num # b.num \/ a.den # b.den

-----------------------------------------------------------------------------
(* Vectors and matrices (Eigen) *)

mNumParams == 11

Slots == 0..(mNumParams - 1)

\* evaluate a function over 1..k once, into a sequence
Vec(f) == f \o <<>>

ZeroVec == Vec([i \in 1..mNumParams |-> Zero])
ZeroMat == Vec([i \in 1..mNumParams |-> ZeroVec])
NaNVec == Vec([i \in 1..mNumParams |-> NaN])

Identity ==
  Vec([i \in 1..mNumParams |->
        Vec([j \in 1..mNumParams |-> IF i = j THEN One ELSE Zero])])

VSub(u, v) == Vec([i \in 1..Len(u) |-> Sub(u[i], v[i])])

RECURSIVE SumFrom(_, _)
SumFrom(v, i) == IF i > Len(v) THEN Zero ELSE Add(v[i], SumFrom(v, i + 1))

Dot(u, v) == SumFrom(Vec([i \in 1..Len(u) |-> Mul(u[i], v[i])]), 1)

\* the square of Eigen's norm()
NormSq(v) == Dot(v, v)

MatVec(A, v) == Vec([i \in 1..Len(A) |-> Dot(A[i], v)])

MAdd(A, B) ==
  Vec([i \in 1..Len(A) |-> Vec([j \in 1..Len(A[i]) |-> Add(A[i][j], B[i][j])])])

MScale(c, A) ==
  Vec([i \in 1..Len(A) |-> Vec([j \in 1..Len(A[i]) |-> Mul(c, A[i][j])])])

\* Gauss-Jordan elimination of the augmented matrix [A | b], column k on;
\* <<>> when a column has no pivot (A is singular)
RECURSIVE Eliminate(_, _)
Eliminate(A, k) ==
  IF k > Len(A) THEN A
  ELSE LET cand == {i \in k..Len(A) : A[i][k].num # 0}
       IN IF cand = {} THEN <<>>
          ELSE LET p == CHOOSE i \in cand : \A j \in cand : i <= j
                   B == Vec([i \in 1..Len(A) |->
                              IF i = k THEN A[p] ELSE IF i = p THEN A[k] ELSE A[i]])
                   rowk == Vec([j \in 1..Len(B[k]) |-> Div(B[k][j], B[k][k])])
                   C == Vec([i \in 1..Len(B) |->
                              IF i = k THEN rowk
                              ELSE IF B[i][k].num = 0 THEN B[i]
                              ELSE Vec([j \in 1..Len(B[i]) |->
                                         Sub(B[i][j], Mul(B[i][k], rowk[j]))])])
               IN Eliminate(C, k + 1)

HugeVec == Vec([i \in 1..mNumParams |-> R(Huge, 1)])

\* A.inverse() * b for finite A and b.  An invertible A gives the solution
\* of A * x = b; a singular A gives what the build's arithmetic gives for
\* it: not-a-number everywhere, or finite and huge.
InverseTimes(A, b, degen) ==
  LET E == Eliminate(Vec([i \in 1..Len(A) |-> Append(A[i], b[i])]), 1)
  IN IF E = <<>>
     THEN (IF degen = "nan" THEN NaNVec ELSE HugeVec)
     ELSE Vec([i \in 1..Len(A) |-> E[i][Len(A) + 1]])

-----------------------------------------------------------------------------
(* SQ_params and its conversions *)

params2Vec(par) ==
  <<par.a, par.b, par.c, par.e1, par.e2,
    par.px, par.py, par.pz, par.ra, par.pa, par.ya>>

vec2Param(v) ==
  [a |-> v[1], b |-> v[2], c |-> v[3], e1 |-> v[4], e2 |-> v[5],
   px |-> v[6], py |-> v[7], pz |-> v[8],
   ra |-> v[9], pa |-> v[10], ya |-> v[11]]

NoParams == vec2Param(NaNVec)

-----------------------------------------------------------------------------
(* The derivative formulas jac_ and hessian_ (external, pure).  A point     *)
(* (x, y, z) contributes as a quadratic bowl centred at z in every slot:    *)
(* curvature x on the diagonal, y > 0 couples slots 0 and 1.  A point with  *)
(* x < 0 gives not-a-number in every element, a point with y < 0 or a       *)
(* shape exponent e1, e2 <= 0 gives not-a-number in the elements of the     *)
(* exponent slots 3 and 4.                                                  *)

ExpSlots == {3, 4}

NanSlot(a, pt, n) ==
  \/ pt.x < 0
  \/ n \in ExpSlots /\ (pt.y < 0 \/ Le(a[n + 1], Zero))

Coupled(pt, m, n) == pt.y > 0 /\ {m, n} = {0, 1}

jac_(a, pt) ==
  Vec([k \in 1..mNumParams |->
        LET n == k - 1
            o == 1 - n
        IN IF NanSlot(a, pt, n) THEN NaN
           ELSE Add(Mul(R(11 * pt.x, 20), Sub(a[k], R(pt.z, 1))),
                    IF Coupled(pt, n, o)
                    THEN Mul(R(pt.y, 2), Sub(a[o + 1], R(pt.z, 1)))
                    ELSE Zero)])

\* 121 values, row-major
hessian_(a, pt) ==
  Vec([k \in 1..(mNumParams * mNumParams) |->
        LET m == (k - 1) \div mNumParams
            n == (k - 1) % mNumParams
        IN IF NanSlot(a, pt, m) \/ NanSlot(a, pt, n) THEN NaN
           ELSE IF m = n THEN R(pt.x, 1)
           ELSE IF Coupled(pt, m, n) THEN R(pt.y, 1)
           ELSE Zero])

-----------------------------------------------------------------------------
(* The Residual Evaluator *)

\* df dropping a point altogether as soon as one of its elements is NaN
RECURSIVE dfLoopSkipPoint(_, _, _, _)
dfLoopSkipPoint(acc, a, samples, i) ==
  IF i > Len(samples) THEN acc
  ELSE LET jac == jac_(a, samples[i])
       IN dfLoopSkipPoint(IF \E k \in 1..mNumParams : Ne(jac[k], jac[k]) THEN acc
                          ELSE Vec([k \in 1..mNumParams |-> Add(acc[k], jac[k])]),
                          a, samples, i + 1)

\* the loop of df over the points i, i+1, ... with running total acc
RECURSIVE dfLoop(_, _, _, _)
dfLoop(acc, a, samples, i) ==
  IF i > Len(samples) THEN acc
  ELSE LET jac == jac_(a, samples[i])
       IN dfLoop(Vec([k \in 1..mNumParams |->
                       IF Ne(jac[k], jac[k]) THEN acc[k]
                       ELSE Add(acc[k], jac[k])]),
                 a, samples, i + 1)

df(a, samples) == dfLoop(ZeroVec, a, samples, 1)

\* ddf without the test for NaN
RECURSIVE ddfLoopNoSkip(_, _, _, _)
ddfLoopNoSkip(acc, a, samples, i) ==
  IF i > Len(samples) THEN acc
  ELSE LET hes == hessian_(a, samples[i])
       IN ddfLoopNoSkip(Vec([r \in 1..mNumParams |->
                              Vec([c \in 1..mNumParams |->
                                    Add(acc[r][c],
                                        hes[mNumParams * (r - 1) + (c - 1) + 1])])]),
                        a, samples, i + 1)

\* the loop of ddf; hes[ind] of the code is hes[ind + 1] here
RECURSIVE ddfLoop(_, _, _, _)
ddfLoop(acc, a, samples, i) ==
  IF i > Len(samples) THEN acc
  ELSE LET hes == hessian_(a, samples[i])
       IN ddfLoop(Vec([r \in 1..mNumParams |->
                        Vec([c \in 1..mNumParams |->
                              LET ind == mNumParams * (r - 1) + (c - 1)
                              IN IF Ne(hes[ind + 1], hes[ind + 1]) THEN acc[r][c]
                                 ELSE Add(acc[r][c], hes[ind + 1])])]),
                  a, samples, i + 1)

ddf(a, samples) == ddfLoop(ZeroMat, a, samples, 1)

-----------------------------------------------------------------------------
(* Inputs *)

ptGood == [x |-> 2, y |-> 1, z |-> 1]
ptPart == [x |-> 1, y |-> -1, z |-> 1]
ptNaN == [x |-> -1, y |-> 0, z |-> 1]

Points == {ptGood, ptPart, ptNaN}

RECURSIVE SeqsUpTo(_, _)
SeqsUpTo(S, k) ==
  IF k = 0 THEN {<<>>}
  ELSE LET shorter == SeqsUpTo(S, k - 1)
       IN shorter \cup {Append(s, e) : s \in shorter, e \in S}

Clouds == SeqsUpTo(Points, MaxPoints)

gTrue == vec2Param(Vec([i \in 1..mNumParams |-> One]))
gNear == [gTrue EXCEPT !.a = R(129, 128), !.b = R(129, 128), !.c = R(129, 128)]
gFar ==
  [a |-> R(6, 5), b |-> R(6, 5), c |-> R(6, 5), e1 |-> One, e2 |-> One,
   px |-> Zero, py |-> Zero, pz |-> Zero, ra |-> Zero, pa |-> Zero, ya |-> Zero]

Guesses == {gTrue, gNear, gFar}

\* arguments of df and ddf: the guesses, and one with a zero exponent e1
EvalArgs ==
  {params2Vec(g) : g \in Guesses} \cup {params2Vec([gFar EXCEPT !.e1 = Zero])}

\* mParams after resize(): not yet written
UninitVecs == {ZeroVec, HugeVec}

-----------------------------------------------------------------------------
(* State after construction.  mMaxIter ranges over 1..MaxIterBound: the      *)
(* constructor sets 1000, and the contract of minimize is stated for every  *)
(* MaxIterations >= 1.  mSamples is the empty cloud until loadPoints.  The   *)
(* loadPoints overload that reads a file and visualizePoints are left out.   *)

Init ==
  /\ mSamples = <<>>
  /\ mParams \in UninitVecs
  /\ mLambda = R(1, 10)
  /\ mMaxIter \in 1..MaxIterBound
  /\ mMinThresh = R(5, 1000)
  /\ degenerate \in {"nan", "huge"}
  /\ pc = "idle"
  /\ lastCall = "none"
  /\ par_in = NoParams
  /\ par_out = NoParams
  /\ params = <<>>
  /\ out = <<>>
  /\ ret = "none"
  /\ iter = 0
  /\ oldParams = <<>>
  /\ H = <<>>
  /\ J = <<>>
  /\ dH = <<>>
  /\ error = Zero
  /\ doneIter = 0
  /\ doneError = Zero
  /\ stale = FALSE
  /\ repeated = FALSE

-----------------------------------------------------------------------------
(* Operations *)

loadPoints(cloud) ==
  /\ pc = "idle"
  /\ mSamples' = cloud
  /\ lastCall' = "loadPoints"
  /\ ret' = "true"
  /\ par_in' = NoParams
  /\ par_out' = NoParams
  /\ params' = <<>>
  /\ out' = <<>>
  /\ doneIter' = 0
  /\ doneError' = Zero
  /\ stale' = FALSE
  /\ repeated' = FALSE
  /\ UNCHANGED <<mParams, config, pc, iter, oldParams, H, J, dH, error>>

\* df with a running total that outlives the call
df_call_static(a) ==
  /\ pc = "idle"
  /\ lastCall' = "df"
  /\ params' = a
  /\ out' = dfLoop(IF lastCall = "df" THEN out ELSE ZeroVec, a, mSamples, 1)
  /\ ret' = "none"
  /\ par_in' = NoParams
  /\ par_out' = NoParams
  /\ doneIter' = 0
  /\ doneError' = Zero
  /\ stale' = FALSE
  /\ repeated' = (lastCall = "df" /\ params = a)
  /\ UNCHANGED <<mSamples, mParams, config, pc, iter, oldParams, H, J, dH, error>>

df_call(a) ==
  /\ pc = "idle"
  /\ lastCall' = "df"
  /\ params' = a
  /\ out' = df(a, mSamples)
  /\ ret' = "none"
  /\ par_in' = NoParams
  /\ par_out' = NoParams
  /\ doneIter' = 0
  /\ doneError' = Zero
  /\ stale' = FALSE
  /\ repeated' = (lastCall = "df" /\ params = a)
  /\ UNCHANGED <<mSamples, mParams, config, pc, iter, oldParams, H, J, dH, error>>

ddf_call(a) ==
  /\ pc = "idle"
  /\ lastCall' = "ddf"
  /\ params' = a
  /\ out' = ddf(a, mSamples)
  /\ ret' = "none"
  /\ par_in' = NoParams
  /\ par_out' = NoParams
  /\ doneIter' = 0
  /\ doneError' = Zero
  /\ stale' = FALSE
  /\ repeated' = (lastCall = "ddf" /\ params = a)
  /\ UNCHANGED <<mSamples, mParams, config, pc, iter, oldParams, H, J, dH, error>>

\* the guess is not loaded: the fit starts from what the instance holds
KeepCurrent(g, cur) == cur

\* mParams << params2Vec( _par_in )
LoadGuess(g, cur) == params2Vec(g)

\* minimize, up to the loop
minimize_begin(g) ==
  /\ pc = "idle"
  /\ pc' = "iterating"
  /\ lastCall' = "minimize"
  /\ par_in' = g
  /\ par_out' = NoParams
  /\ ret' = "none"
  /\ H' = <<>>
  /\ J' = <<>>
  /\ dH' = Identity
  /\ error' = Zero
  /\ iter' = 0
  /\ oldParams' = <<>>
  /\ mParams' = LoadGuess(g, mParams)
  /\ params' = <<>>
  /\ out' = <<>>
  /\ doneIter' = 0
  /\ doneError' = Zero
  /\ stale' = (lastCall = "minimize" /\ mParams # params2Vec(g))
  /\ repeated' = FALSE
  /\ UNCHANGED <<mSamples, config>>

\* for( i ) dH(i,i) = H(i,i)
SetDiag(D, A) ==
  Vec([i \in 1..mNumParams |->
        Vec([j \in 1..mNumParams |-> IF i = j THEN A[i][i] ELSE D[i][j]])])

\* (H + mLambda*dH).inverse()*J
Correction(A, D, b) ==
  InverseTimes(MAdd(A, MScale(mLambda, D)), b, degenerate)

\* error > mMinThresh, on the squares (both sides are non-negative)
AboveThresh(errSq, thresh) == Gt(errSq, Mul(thresh, thresh))

\* the loop test with the cap off by one
LoopTestInclusive(it, errSq) == it <= mMaxIter /\ AboveThresh(errSq, mMinThresh)

\* while( iter < mMaxIter && error > mMinThresh )
LoopTest(it, errSq) == it < mMaxIter /\ AboveThresh(errSq, mMinThresh)

\* the final test with > for >=
ReturnFlagStrict(it) == IF it > mMaxIter THEN "false" ELSE "true"

\* if( iter >= mMaxIter ) return false; else return true;
ReturnFlag(it) == IF it >= mMaxIter THEN "false" ELSE "true"

\* one pass through the body of the do-while loop and its test
minimize_round ==
  /\ pc = "iterating"
  /\ LET old == mParams
         newH == ddf(mParams, mSamples)
         newJ == df(mParams, mSamples)
         newdH == SetDiag(dH, newH)
         newParams == VSub(mParams, Correction(newH, newdH, newJ))
         newIter == iter + 1
         newError == NormSq(VSub(newParams, old))
     IN /\ oldParams' = old
        /\ H' = newH
        /\ J' = newJ
        /\ dH' = newdH
        /\ mParams' = newParams
        /\ iter' = newIter
        /\ error' = newError
        /\ pc' = IF LoopTest(newIter, newError) THEN "iterating" ELSE "exit"
  /\ UNCHANGED <<mSamples, config, lastCall, par_in, par_out, params, out, ret,
                 doneIter, doneError, stale, repeated>>

\* the parameters of the round before are handed out
OutputRolledBack(cur, old) == vec2Param(old)

\* vec2Param( mParams, _par_out )
Output(cur, old) == vec2Param(cur)

\* minimize, after the loop
minimize_end ==
  /\ pc = "exit"
  /\ par_out' = Output(mParams, oldParams)
  /\ ret' = ReturnFlag(iter)
  /\ doneIter' = iter
  /\ doneError' = error
  /\ pc' = "idle"
  /\ iter' = 0
  /\ oldParams' = <<>>
  /\ H' = <<>>
  /\ J' = <<>>
  /\ dH' = <<>>
  /\ error' = Zero
  /\ UNCHANGED <<mSamples, mParams, config, lastCall, par_in, params, out,
                 stale, repeated>>

-----------------------------------------------------------------------------
(* Specifications *)

\* the solver
Next ==
  \/ \E cloud \in Clouds : loadPoints(cloud)
  \/ \E g \in Guesses : minimize_begin(g)
  \/ minimize_round
  \/ minimize_end

Spec == Init /\ [][Next]_vars

\* The solver where a call that has begun runs on: weak fairness of
\* minimize_round and of minimize_end, with ENABLED <<minimize_round>>_vars
\* written out as pc = "iterating" and ENABLED <<minimize_end>>_vars as
\* pc = "exit" (a round always changes iter, the end always changes pc).
LiveSpec ==
  /\ Spec
  /\ ([]<>(pc # "iterating") \/ []<><<minimize_round>>_vars)
  /\ ([]<>(pc # "exit") \/ []<><<minimize_end>>_vars)

\* the residual evaluator
NextEval ==
  \/ \E cloud \in Clouds : loadPoints(cloud)
  \/ \E a \in EvalArgs : df_call(a)
  \/ \E a \in EvalArgs : ddf_call(a)

EvalSpec == Init /\ [][NextEval]_vars

-----------------------------------------------------------------------------
(* The contract of minimize *)

Thresh2 == Mul(mMinThresh, mMinThresh)

\* minimize has returned: ret, par_out, doneIter and doneError are its outcome
Returned == pc = "idle" /\ lastCall = "minimize"

\* the damping matrix of a round: the diagonal of A, zero elsewhere
DiagOf(A) ==
  Vec([i \in 1..mNumParams |->
        Vec([j \in 1..mNumParams |-> IF i = j THEN A[i][i] ELSE Zero])])

\* the correction of a round that starts at p
StepAt(p) ==
  LET A == ddf(p, mSamples)
  IN InverseTimes(MAdd(A, MScale(mLambda, DiagOf(A))), df(p, mSamples), degenerate)

\* the parameters after k rounds from p
RECURSIVE Iterate(_, _)
Iterate(p, k) == IF k = 0 THEN p ELSE Iterate(VSub(p, StepAt(p)), k - 1)

\* the outcome of a fit from p with it rounds behind it, as a function of the
\* initial guess, the SampleSet and the constants alone
RECURSIVE FitFrom(_, _)
FitFrom(p, it) ==
  LET q == VSub(p, StepAt(p))
      e == NormSq(VSub(q, p))
  IN IF it + 1 < mMaxIter /\ Gt(e, Thresh2)
     THEN FitFrom(q, it + 1)
     ELSE [flag |-> IF it + 1 < mMaxIter THEN "true" ELSE "false",
           params |-> vec2Param(q)]

\* C1: whenever minimize returns true, the step size of its last iteration
\* is at most MinThreshold; a not-a-number correction is never reported as
\* convergence.
C1_ConvergedHasSmallStep ==
  (Returned /\ ret = "true") => Le(doneError, Thresh2)

\* C2: whenever minimize returns false, the iteration count is MaxIterations
\* and the step size of the last iteration is above MinThreshold.
C2_ExhaustedHasLargeStep ==
  (Returned /\ ret = "false") => (doneIter = mMaxIter /\ Gt(doneError, Thresh2))

\* C3: with MaxIterations = 1 and a first step above MinThreshold, minimize
\* performs exactly one iteration, returns false, and the output is the
\* initial guess minus the single correction, not the initial guess.
C3_OneIterationExhausts ==
  (Returned /\ mMaxIter = 1
     /\ Gt(NormSq(StepAt(params2Vec(par_in))), Thresh2))
  => /\ ret = "false"
     /\ doneIter = 1
     /\ par_out = vec2Param(VSub(params2Vec(par_in), StepAt(params2Vec(par_in))))
     /\ par_out # par_in

C3_Witness ==
  /\ Returned
  /\ mMaxIter = 1
  /\ par_in = gFar
  /\ mSamples = <<ptGood, ptPart>>
  /\ Gt(doneError, Thresh2)
  /\ ret = "false"
  /\ par_out.a = R(11, 10)

\* C4: minimize ends in one of its two outcomes after at least 1 and at most
\* MaxIterations iterations: every round raises the iteration counter by
\* exactly 1 and never past MaxIterations, the loop is never entered again
\* once iter = MaxIterations or error <= MinThreshold, the step after the
\* loop returns true or false, and a call that has begun does return.
C4_Terminates ==
  /\ [](Returned => (ret \in {"true", "false"} /\ 1 <= doneIter /\ doneIter <= mMaxIter))
  /\ []((pc = "iterating" /\ iter > 0) => (iter < mMaxIter /\ ~Le(error, Thresh2)))
  /\ [][pc = "iterating" =>
          (iter' = iter + 1 /\ iter' <= mMaxIter /\ pc' \in {"iterating", "exit"})]_vars
  /\ [][pc = "exit" => (pc' = "idle" /\ ret' \in {"true", "false"})]_vars
  /\ (pc = "iterating") ~> Returned

C4_Witness ==
  /\ Returned
  /\ ret = "true"
  /\ 1 < doneIter
  /\ doneIter < mMaxIter

\* C5: in both outcomes the output is the solver's parameters after the last
\* update performed, the doneIter-th iterate of the initial guess; nothing is
\* rolled back, and the flag is the only difference between the outcomes.
C5_OutputIsLatest ==
  Returned =>
    /\ par_out = vec2Param(mParams)
    /\ mParams = Iterate(params2Vec(par_in), doneIter)

C5_Witness ==
  /\ Returned
  /\ ret = "false"
  /\ doneIter = 2
  /\ par_in = gFar
  /\ par_out.a = R(21, 20)

\* C9: the outcome of a minimize call is a function of its initial guess, the
\* SampleSet and the constants, whatever an earlier fit left in the instance;
\* minimize leaves the SampleSet and the constants unchanged.
C9_FitsAreIndependent ==
  /\ [](Returned =>
          [flag |-> ret, params |-> par_out] = FitFrom(params2Vec(par_in), 0))
  /\ [][(pc # "idle" \/ pc' # "idle") =>
          UNCHANGED <<mSamples, mLambda, mMaxIter, mMinThresh>>]_vars

C9_Witness ==
  /\ Returned
  /\ stale
  /\ ret = "true"
  /\ par_in = gNear

\* C10: a round evaluates H and J at the parameters it starts with, builds D
\* as the diagonal of that H with zeros elsewhere, replaces the parameters by
\* params - Delta where (H + lambda*D) * Delta = J, raises the iteration
\* count by one and sets error to the norm of the parameter change, which is
\* the norm of Delta.
C10_RoundShape ==
  [][pc = "iterating" =>
       LET p == mParams
           A == ddf(p, mSamples)
           b == df(p, mSamples)
           D == DiagOf(A)
           delta == VSub(p, mParams')
       IN /\ H' = A
          /\ J' = b
          /\ dH' = D
          /\ MatVec(MAdd(A, MScale(mLambda, D)), delta) = b
          /\ iter' = iter + 1
          /\ error' = NormSq(VSub(mParams', p))
          /\ error' = NormSq(delta)]_vars

-----------------------------------------------------------------------------
(* The contract of df and ddf *)

\* the contributions of the points of the SampleSet at a, in order
JacAll(a) == Vec([i \in 1..Len(mSamples) |-> jac_(a, mSamples[i])])
HesAll(a) == Vec([i \in 1..Len(mSamples) |-> hessian_(a, mSamples[i])])

\* the sum of element k of contributions i, i+1, ..., a NaN counting as zero
RECURSIVE SumOf(_, _, _)
SumOf(contribs, k, i) ==
  IF i > Len(contribs) THEN Zero
  ELSE Add(IF contribs[i][k].nan THEN Zero ELSE contribs[i][k],
           SumOf(contribs, k, i + 1))

\* the sequence s without its element i
Without(s, i) == SubSeq(s, 1, i - 1) \o SubSeq(s, i + 1, Len(s))

HasNaN(c) == \E k \in 1..Len(c) : c[k].nan

\* the matrix of 121 row-major values
AsMatrix(c) ==
  Vec([r \in 1..mNumParams |->
        Vec([k \in 1..mNumParams |-> c[mNumParams * (r - 1) + k]])])

\* C7: slot n of df is the sum over the points of element n of the first
\* derivative contribution, NaN counted as zero; slot (m,n) of ddf is the same
\* sum of element 11*m+n of the second derivative contribution; the results
\* have 11 and 11x11 slots and are zero for an empty SampleSet.
C7_Aggregation ==
  /\ lastCall = "df" =>
       LET all == JacAll(params)
       IN /\ Len(out) = 11
          /\ \A n \in Slots : out[n + 1] = SumOf(all, n + 1, 1)
          /\ mSamples = <<>> => out = ZeroVec
  /\ lastCall = "ddf" =>
       LET all == HesAll(params)
       IN /\ Len(out) = 11
          /\ \A m \in Slots : Len(out[m + 1]) = 11
          /\ \A m \in Slots : \A n \in Slots :
               out[m + 1][n + 1] = SumOf(all, 11 * m + n + 1, 1)
          /\ mSamples = <<>> => out = ZeroMat

C7_Witness ==
  /\ lastCall = "ddf"
  /\ mSamples = <<ptGood, ptPart>>
  /\ params = params2Vec(gFar)
  /\ out[1][1] = R(3, 1)
  /\ out[1][2] = One
  /\ out[4][4] = R(2, 1)

\* C6 as stated: a point with a NaN element in its contribution contributes
\* nothing to any slot of the Gradient and of the Hessian.
C6_PointIsolated ==
  \A i \in 1..Len(mSamples) :
    /\ (lastCall = "df" /\ HasNaN(jac_(params, mSamples[i])))
         => out = df(params, Without(mSamples, i))
    /\ (lastCall = "ddf" /\ HasNaN(hessian_(params, mSamples[i])))
         => out = ddf(params, Without(mSamples, i))

\* C6, amended: a point with a NaN element in its contribution contributes
\* nothing to the slots where its element is NaN, and exactly its element to
\* every other slot.
C6_ElementIsolated ==
  \A i \in 1..Len(mSamples) :
    /\ lastCall = "df" =>
         LET c == jac_(params, mSamples[i])
             rest == df(params, Without(mSamples, i))
         IN HasNaN(c) =>
              \A k \in 1..mNumParams :
                out[k] = IF c[k].nan THEN rest[k] ELSE Add(rest[k], c[k])
    /\ lastCall = "ddf" =>
         LET c == hessian_(params, mSamples[i])
             cm == AsMatrix(c)
             rest == ddf(params, Without(mSamples, i))
         IN HasNaN(c) =>
              \A r \in 1..mNumParams : \A k \in 1..mNumParams :
                out[r][k] = IF cm[r][k].nan THEN rest[r][k]
                            ELSE Add(rest[r][k], cm[r][k])

C6_Witness ==
  /\ lastCall = "df"
  /\ mSamples = <<ptGood, ptPart>>
  /\ params = params2Vec(gFar)
  /\ HasNaN(jac_(params, ptPart))
  /\ out[4] = df(params, <<ptGood>>)[4]
  /\ out[1] # df(params, <<ptGood>>)[1]

\* C8: a df or ddf call that repeats the call before it, on the same
\* parameters and SampleSet, returns the same result, and a df or ddf call
\* leaves the SampleSet, the solver's parameters and the constants unchanged.
C8_NoHiddenState ==
  [][lastCall' \in {"df", "ddf"} =>
       /\ UNCHANGED <<mSamples, mParams, mLambda, mMaxIter, mMinThresh>>
       /\ repeated' => out' = out]_vars

C8_Witness ==
  /\ repeated
  /\ lastCall = "df"
  /\ mSamples = <<ptGood, ptPart>>
  /\ out # ZeroVec

====
